---- MODULE Spec2Model ----
(***************************************************************************)
(* A model of lib/vm.js (Node.js v10.15.3): the Script class, the context  *)
(* management functions, the option validators and the SIGINT listener     *)
(* protocol around an engine run.                                          *)
(*                                                                         *)
(* JavaScript values are records [t, hi, lo, s]: t is the type tag, a      *)
(* number is hi * 2^16 + lo with 0 <= lo < 2^16 (two 16-bit limbs, so that *)
(* the 32-bit conversion of `prop >> 0` keeps its width), s is the text of *)
(* a string and lo the identity of an object or function.                  *)
(***************************************************************************)
EXTENDS Integers, Sequences, FiniteSets, TLC

Limb == 2 ^ 16
Half == 2 ^ 15

\* ---------------------------------------------------------------- values
Undef == [t |-> "undefined", hi |-> 0, lo |-> 0, s |-> ""]
Null == [t |-> "null", hi |-> 0, lo |-> 0, s |-> ""]
Bool(b) == [t |-> "boolean", hi |-> 0, lo |-> IF b THEN 1 ELSE 0, s |-> ""]
Num(h, l) == [t |-> "number", hi |-> h, lo |-> l, s |-> ""]
Float == [t |-> "float", hi |-> 1, lo |-> 5, s |-> ""]
Str(x) == [t |-> "string", hi |-> 0, lo |-> 0, s |-> x]
Obj(i) == [t |-> "object", hi |-> 0, lo |-> i, s |-> ""]
Fn(i) == [t |-> "function", hi |-> 0, lo |-> i, s |-> ""]
U8(i) == [t |-> "uint8array", hi |-> 0, lo |-> i, s |-> ""]

\* typeof v
typeof(v) ==
  CASE v.t = "float" -> "number"
    [] v.t = "null" -> "object"
    [] v.t = "uint8array" -> "object"
    [] OTHER -> v.t

\* ToInt32, the conversion made by `prop >> 0`
ToInt32(v) == [v EXCEPT !.hi = ((v.hi + Half) % Limb) - Half]

\* JavaScript truthiness, as used by `if (options)`
truthy(v) ==
  CASE v.t \in {"undefined", "null"} -> FALSE
    [] v.t = "boolean" -> v.lo = 1
    [] v.t = "number" -> ~(v.hi = 0 /\ v.lo = 0)
    [] v.t = "string" -> v.s # ""
    [] OTHER -> TRUE

\* ------------------------------------------------------------ validators
NoErr == [code |-> "none", arg |-> ""]
Err(c, a) == [code |-> c, arg |-> a]

\* the first error of a sequence of checks, in order
RECURSIVE FirstErr(_)
FirstErr(es) ==
  IF es = <<>> THEN NoErr
  ELSE IF Head(es).code # "none" THEN Head(es)
  ELSE FirstErr(Tail(es))

validateIntegerNoRange(prop, propName) ==
  IF prop.t # "number" THEN Err("ERR_INVALID_ARG_TYPE", propName) ELSE NoErr

validateInteger(prop, propName) ==
  IF prop.t # "number" THEN Err("ERR_INVALID_ARG_TYPE", propName)
  ELSE IF ToInt32(prop) # prop THEN Err("ERR_OUT_OF_RANGE", propName)
  ELSE NoErr

validateString(prop, propName) ==
  IF prop.t # "undefined" /\ typeof(prop) # "string"
  THEN Err("ERR_INVALID_ARG_TYPE", propName) ELSE NoErr

validateBool(prop, propName) ==
  IF prop.t # "undefined" /\ typeof(prop) # "boolean"
  THEN Err("ERR_INVALID_ARG_TYPE", propName) ELSE NoErr

validateObject(prop, propName) ==
  IF prop.t # "undefined" /\ (typeof(prop) # "object" \/ prop.t = "null")
  THEN Err("ERR_INVALID_ARG_TYPE", propName) ELSE NoErr

\* --------------------------------------------------------------- options
\* An options argument is [v, f]: v the value passed (its type tag decides
\* the shorthand and the type errors), f its properties when it is an object.
\* A codeGeneration value is [v, strings, wasm] in the same way.
NoCG == [v |-> Undef, strings |-> Undef, wasm |-> Undef]
CG(st, wa) == [v |-> Obj(0), strings |-> st, wasm |-> wa]
BadCG == [v |-> Num(0, 7), strings |-> Undef, wasm |-> Undef]

NoProps ==
  [filename |-> Undef, lineOffset |-> Undef, columnOffset |-> Undef,
   cachedData |-> Undef, produceCachedData |-> Undef,
   importModuleDynamically |-> Undef,
   timeout |-> Undef, displayErrors |-> Undef, breakOnSigint |-> Undef,
   contextName |-> Undef, contextOrigin |-> Undef,
   contextCodeGeneration |-> NoCG]

OptObj(f) == [v |-> Obj(0), f |-> f]
OptVal(x) == [v |-> x, f |-> NoProps]

\* the properties read from an options value: a primitive has none of them
Props(o) == IF o.v.t = "object" THEN o.f ELSE NoProps

\* Object.assign({}, options, {[kParsingContext]: ...}): always an object
ObjectAssign(o) == OptObj(Props(o))

\* `if (typeof options === 'string') options = { filename: options }`
Shorthand(o) ==
  IF typeof(o.v) = "string" THEN OptObj([NoProps EXCEPT !.filename = o.v]) ELSE o

\* a default parameter value `options = {}` applies to undefined only
DefaultObj(o) == IF o.v.t = "undefined" THEN OptObj(NoProps) ELSE o

\* a destructuring default `x = d` applies to undefined only
Dflt(x, d) == IF x.t = "undefined" THEN d ELSE x

\* ------------------------------------------------------------ bounds
MaxObj == 2          \* object identities 1..MaxObj
MaxIndex == 2        \* cap on defaultContextNameIndex
HostObjs == {1}      \* the object the host already holds; the rest are fresh

Objs == 1 .. MaxObj

\* ---------------------------------------------------------- engine state
\* E = [cx, idx, nextObj]: cx[i] is what makeContext recorded for object i,
\* idx is defaultContextNameIndex, nextObj the next fresh object identity.
\* (auto records that the name was the default label; nothing reads it but
\* the properties)
NotCtx ==
  [is |-> FALSE, name |-> "", origin |-> "", strings |-> TRUE, wasm |-> TRUE,
   auto |-> FALSE]
E0 == [cx |-> [i \in Objs |-> NotCtx], idx |-> 1, nextObj |-> 1 + Cardinality(HostObjs)]

\* _isContext of the contextify binding
isContextBinding(E, sandbox) == sandbox.lo \in Objs /\ E.cx[sandbox.lo].is

\* makeContext of the contextify binding
makeContext(E, sandbox, name, origin, strings, wasm, auto) ==
  [E EXCEPT !.cx[sandbox.lo] =
     [is |-> TRUE, name |-> name, origin |-> origin,
      strings |-> strings, wasm |-> wasm, auto |-> auto]]

\* `VM Context ${defaultContextNameIndex}`
DefaultNameShared(n) == "VM Context 1"
DefaultName(n) == "VM Context " \o ToString(n)

\* ------------------------------------------------------- Script constructor
\* the checks made before super(...)
ScriptPreChecks(o) ==
  LET p == Props(o)
      filename == Dflt(p.filename, Str("evalmachine.<anonymous>"))
      lineOffset == Dflt(p.lineOffset, Num(0, 0))
      columnOffset == Dflt(p.columnOffset, Num(0, 0))
      produceCachedData == Dflt(p.produceCachedData, Bool(FALSE))
  IN FirstErr(<<
       IF typeof(filename) # "string"
         THEN Err("ERR_INVALID_ARG_TYPE", "options.filename") ELSE NoErr,
       validateInteger(lineOffset, "options.lineOffset"),
       validateInteger(columnOffset, "options.columnOffset"),
       IF p.cachedData.t # "undefined" /\ p.cachedData.t # "uint8array"
         THEN Err("ERR_INVALID_ARG_TYPE", "options.cachedData") ELSE NoErr,
       IF typeof(produceCachedData) # "boolean"
         THEN Err("ERR_INVALID_ARG_TYPE", "options.produceCachedData") ELSE NoErr
     >>)

\* the constructor of the contextify binding: the engine parses the code
ContextifyScript(code) ==
  IF code = "syntax" THEN Err("SyntaxError", "code") ELSE NoErr

\* new Script(code, options): [err, compiled, resolver]
\*   compiled: the engine constructor was invoked
\*   resolver: a dynamic-import wrapper was put in callbackMap
ScriptNewEarlyCompile(code, options) ==
  LET o == Shorthand(DefaultObj(options))
      pre == ScriptPreChecks(o)
  IN [err |-> IF typeof(o.v) # "object" \/ o.v.t = "null"
                THEN Err("ERR_INVALID_ARG_TYPE", "options") ELSE pre,
      compiled |-> TRUE, resolver |-> FALSE]

ScriptNew(code, options) ==
  LET o == Shorthand(DefaultObj(options))
      pre == ScriptPreChecks(o)
      imd == Props(o).importModuleDynamically
  IN IF typeof(o.v) # "object" \/ o.v.t = "null"
       THEN [err |-> Err("ERR_INVALID_ARG_TYPE", "options"),
             compiled |-> FALSE, resolver |-> FALSE]
     ELSE IF pre.code # "none"
       THEN [err |-> pre, compiled |-> FALSE, resolver |-> FALSE]
     ELSE IF ContextifyScript(code).code # "none"
       THEN [err |-> ContextifyScript(code), compiled |-> TRUE, resolver |-> FALSE]
     ELSE IF imd.t = "undefined"
       THEN [err |-> NoErr, compiled |-> TRUE, resolver |-> FALSE]
     ELSE IF typeof(imd) # "function"
       THEN [err |-> Err("ERR_INVALID_ARG_TYPE", "options.importModuleDynamically"),
             compiled |-> TRUE, resolver |-> FALSE]
     ELSE [err |-> NoErr, compiled |-> TRUE, resolver |-> TRUE]

\* ------------------------------------------------------ run-time options
NoTimeout == Num(-1, Limb - 1)         \* the number -1

\* getRunInContextArgs(options): [err, breakOnSigint, timeout, displayErrors]
getRunInContextArgsNoSentinel(options) ==
  LET p == Props(DefaultObj(options))
  IN [err |-> NoErr, breakOnSigint |-> p.breakOnSigint = Bool(TRUE),
      timeout |-> p.timeout, displayErrors |-> Dflt(p.displayErrors, Bool(TRUE))]

getRunInContextArgs(options) ==
  LET o == DefaultObj(options)
      p == Props(o)
      displayErrors == Dflt(p.displayErrors, Bool(TRUE))
      breakOnSigint == Dflt(p.breakOnSigint, Bool(FALSE))
      e == FirstErr(<<
             IF typeof(o.v) # "object" \/ o.v.t = "null"
               THEN Err("ERR_INVALID_ARG_TYPE", "options") ELSE NoErr,
             IF p.timeout.t # "undefined"
                  /\ (p.timeout.t # "number" \/ p.timeout.hi < 0
                      \/ (p.timeout.hi = 0 /\ p.timeout.lo = 0))
               THEN Err("ERR_INVALID_ARG_TYPE", "options.timeout") ELSE NoErr,
             IF typeof(displayErrors) # "boolean"
               THEN Err("ERR_INVALID_ARG_TYPE", "options.displayErrors") ELSE NoErr,
             IF typeof(breakOnSigint) # "boolean"
               THEN Err("ERR_INVALID_ARG_TYPE", "options.breakOnSigint") ELSE NoErr
           >>)
  IN [err |-> e,
      breakOnSigint |-> (e.code = "none" /\ breakOnSigint.lo = 1),
      timeout |-> IF p.timeout.t = "undefined" THEN NoTimeout ELSE p.timeout,
      displayErrors |-> displayErrors]

\* ------------------------------------------------------- context options
\* the options of createContext: [v, name, origin, codeGeneration]
NoCtxOpts == [v |-> Obj(0), name |-> Undef, origin |-> Undef, codeGeneration |-> NoCG]

\* getContextOptions(options): [err, opts]
getContextOptions(options) ==
  LET p == Props(options)
      cg == p.contextCodeGeneration
      contextOptions ==
        [v |-> Obj(0), name |-> p.contextName, origin |-> p.contextOrigin,
         codeGeneration |->
           IF typeof(cg.v) = "object" THEN CG(cg.strings, cg.wasm) ELSE NoCG]
  IN IF ~truthy(options.v) THEN [err |-> NoErr, opts |-> NoCtxOpts]
     ELSE [err |-> FirstErr(<<
                     validateObject(cg.v, "options.contextCodeGeneration"),
                     validateString(contextOptions.name, "options.contextName"),
                     validateString(contextOptions.origin, "options.contextOrigin"),
                     IF contextOptions.codeGeneration.v.t # "undefined"
                       THEN validateBool(contextOptions.codeGeneration.strings,
                                         "options.contextCodeGeneration.strings")
                       ELSE NoErr,
                     IF contextOptions.codeGeneration.v.t # "undefined"
                       THEN validateBool(contextOptions.codeGeneration.wasm,
                                         "options.contextCodeGeneration.wasm")
                       ELSE NoErr >>),
           opts |-> contextOptions]

\* isContext(sandbox): the type check that precedes _isContext
isContextErr(sandbox) ==
  IF typeof(sandbox) # "object" \/ sandbox.t = "null"
  THEN Err("ERR_INVALID_ARG_TYPE", "sandbox") ELSE NoErr

\* validateContext(sandbox)
validateContext(E, sandbox) ==
  IF typeof(sandbox) # "object" \/ sandbox.t = "null"
    THEN Err("ERR_INVALID_ARG_TYPE", "contextifiedSandbox")
  ELSE IF ~isContextBinding(E, sandbox)
    THEN Err("ERR_INVALID_ARG_TYPE", "contextifiedSandbox")
  ELSE NoErr

\* ---------------------------------------------------------- createContext
\* createContext(sandbox, options): [err, ret, E, made]
\*   ret: the object returned, E: the engine state afterwards,
\*   made: the number of makeContext calls
\* `early` is where the already-a-context test stands: TRUE as in the code
\* (first), FALSE after the options were read and the default name taken.
createContextAt(E, sandbox, options, early) ==
  LET fresh == sandbox.t = "undefined"
      sb == IF fresh THEN Obj(E.nextObj) ELSE sandbox
      E1 == IF fresh THEN [E EXCEPT !.nextObj = @ + 1] ELSE E
      o == IF options.v.t = "undefined" THEN NoCtxOpts ELSE options
      auto == o.name.t = "undefined"
      name == IF auto THEN Str(DefaultName(E1.idx)) ELSE o.name
      E2 == IF auto THEN [E1 EXCEPT !.idx = @ + 1] ELSE E1
      cg == o.codeGeneration
      strings == Dflt(cg.strings, Bool(TRUE))
      wasm == Dflt(cg.wasm, Bool(TRUE))
      optErr == IF typeof(o.v) # "object" \/ o.v.t = "null"
                  THEN Err("ERR_INVALID_ARG_TYPE", "options") ELSE NoErr
      e == FirstErr(<<
             IF typeof(name) # "string"
               THEN Err("ERR_INVALID_ARG_TYPE", "options.name") ELSE NoErr,
             validateString(o.origin, "options.origin"),
             validateObject(cg.v, "options.codeGeneration"),
             IF cg.v.t # "undefined"
               THEN validateBool(strings, "options.codeGeneration.strings") ELSE NoErr,
             IF cg.v.t # "undefined"
               THEN validateBool(wasm, "options.codeGeneration.wasm") ELSE NoErr >>)
      made == [err |-> NoErr, ret |-> sb, made |-> 1,
               E |-> makeContext(E2, sb, name.s, o.origin.s,
                                 strings.lo = 1, wasm.lo = 1, auto)]
  IN IF isContextErr(sb).code # "none"
       THEN [err |-> isContextErr(sb), ret |-> Undef, E |-> E1, made |-> 0]
     ELSE IF early /\ isContextBinding(E1, sb)
       THEN [err |-> NoErr, ret |-> sb, E |-> E1, made |-> 0]
     ELSE IF optErr.code # "none"
       THEN [err |-> optErr, ret |-> Undef, E |-> E1, made |-> 0]
     ELSE IF e.code # "none"
       THEN [err |-> e, ret |-> Undef, E |-> E2, made |-> 0]
     ELSE IF isContextBinding(E2, sb)
       THEN [err |-> NoErr, ret |-> sb, E |-> E2, made |-> 0]
     ELSE made

createContextLate(E, sandbox, options) == createContextAt(E, sandbox, options, FALSE)

createContext(E, sandbox, options) == createContextAt(E, sandbox, options, TRUE)

\* --------------------------------------------------- the run entry points
\* What a call did up to the moment the engine run starts:
\*   [err, stage, compiled, made, ran, E, ret, breakOnSigint, timeout]
\*   stage: the part of the call that raised err ("context", "compile",
\*          "run"), compiled: the engine constructor was invoked,
\*   made: makeContext calls, ran: the engine run was invoked,
\*   ret: the context used, breakOnSigint/timeout: the arguments of the run
Res(err, stage, compiled, made, ran, E, ret, a) ==
  [err |-> err, stage |-> stage, compiled |-> compiled, made |-> made,
   ran |-> ran, E |-> E, ret |-> ret,
   breakOnSigint |-> a.breakOnSigint, timeout |-> a.timeout]

NoArgs == [breakOnSigint |-> FALSE, timeout |-> NoTimeout]

\* Script.prototype.runInThisContext(options)
ScriptRunInThisContext(E, options, compiled, made) ==
  LET a == getRunInContextArgs(options)
  IN IF a.err.code # "none"
       THEN Res(a.err, "run", compiled, made, FALSE, E, Undef, NoArgs)
     ELSE Res(NoErr, "run", compiled, made, TRUE, E, Undef, a)

\* Script.prototype.runInContext(contextifiedSandbox, options)
ScriptRunInContext(E, sandbox, options, compiled, made) ==
  LET v == validateContext(E, sandbox)
      a == getRunInContextArgs(options)
  IN IF v.code # "none"
       THEN Res(v, "run", compiled, made, FALSE, E, Undef, NoArgs)
     ELSE IF a.err.code # "none"
       THEN Res(a.err, "run", compiled, made, FALSE, E, Undef, NoArgs)
     ELSE Res(NoErr, "run", compiled, made, TRUE, E, sandbox, a)

\* Script.prototype.runInNewContext(sandbox, options)
ScriptRunInNewContext(E, sandbox, options, compiled, made) ==
  LET g == getContextOptions(options)
      c == createContext(E, sandbox, g.opts)
  IN IF g.err.code # "none"
       THEN Res(g.err, "context", compiled, made, FALSE, E, Undef, NoArgs)
     ELSE IF c.err.code # "none"
       THEN Res(c.err, "context", compiled, made, FALSE, c.E, Undef, NoArgs)
     ELSE ScriptRunInContext(c.E, c.ret, options, compiled, made + c.made)

\* vm.runInThisContext(code, options)
runInThisContext(E, code, options) ==
  LET o == Shorthand(options)
      s == ScriptNew(code, o)
  IN IF s.err.code # "none"
       THEN Res(s.err, "compile", s.compiled, 0, FALSE, E, Undef, NoArgs)
     ELSE ScriptRunInThisContext(E, o, s.compiled, 0)

\* vm.runInContext(code, contextifiedSandbox, options)
runInContext(E, code, sandbox, options) ==
  LET v == validateContext(E, sandbox)
      o == IF typeof(options.v) = "string" THEN Shorthand(options)
           ELSE ObjectAssign(options)
      s == ScriptNew(code, o)
  IN IF v.code # "none"
       THEN Res(v, "context", FALSE, 0, FALSE, E, Undef, NoArgs)
     ELSE IF s.err.code # "none"
       THEN Res(s.err, "compile", s.compiled, 0, FALSE, E, Undef, NoArgs)
     ELSE ScriptRunInContext(E, sandbox, o, s.compiled, 0)

\* vm.runInNewContext(code, sandbox, options)
runInNewContext(E, code, sandbox, options) ==
  LET o1 == Shorthand(options)
      g == getContextOptions(o1)
      c == createContext(E, sandbox, g.opts)
      o2 == ObjectAssign(o1)
      s == ScriptNew(code, o2)
  IN IF g.err.code # "none"
       THEN Res(g.err, "context", FALSE, 0, FALSE, E, Undef, NoArgs)
     ELSE IF c.err.code # "none"
       THEN Res(c.err, "context", FALSE, 0, FALSE, c.E, Undef, NoArgs)
     ELSE IF s.err.code # "none"
       THEN Res(s.err, "compile", s.compiled, c.made, FALSE, c.E, Undef, NoArgs)
     ELSE ScriptRunInNewContext(c.E, c.ret, o2, s.compiled, c.made)

\* ------------------------------------------------- process SIGINT listeners
\* The listeners of process for 'SIGINT' are a sequence of listener identities.
rawListeners(list) == list
removeAllListeners(list) == <<>>
listenerCount(list) == Len(list)
\* process.addListener: appends, and emits 'newListener' for the listener
addListener(p, listener) ==
  [list |-> Append(p.list, listener), emitted |-> Append(p.emitted, listener)]

\* sigintHandlersWrap, before fn.apply: [saved, list]
DetachKeep(list) == [saved |-> rawListeners(list), list |-> list]

Detach(list) ==
  [saved |-> rawListeners(list), list |-> removeAllListeners(list)]

\* sigintHandlersWrap, the finally block: [list, emitted]
RECURSIVE ReAttachFrom(_, _)
ReAttachFrom(p, saved) ==
  IF saved = <<>> THEN p
  ELSE ReAttachFrom(addListener(p, Head(saved)), Tail(saved))

RECURSIVE Reverse(_)
Reverse(q) == IF q = <<>> THEN <<>> ELSE Append(Reverse(Tail(q)), Head(q))

ReAttachReversed(list, saved) ==
  ReAttachFrom([list |-> list, emitted |-> <<>>], Reverse(saved))

ReAttach(list, saved) == ReAttachFrom([list |-> list, emitted |-> <<>>], saved)

\* try { return fn.apply(...) } finally { re-attach }: what follows the run,
\* whatever its outcome
AfterRunOnSuccess(list, saved, outcome) ==
  IF outcome = "value" THEN ReAttach(list, saved)
  ELSE [list |-> list, emitted |-> <<>>]

AfterRun(list, saved, outcome) == ReAttach(list, saved)

\* `breakOnSigint && process.listenerCount('SIGINT') > 0`
WrapsAlways(breakOnSigint, list) == listenerCount(list) > 0

Wraps(breakOnSigint, list) == breakOnSigint /\ listenerCount(list) > 0

\* ======================================================== the state machine
VARIABLES
  sigint,    \* process's 'SIGINT' listeners, in registration order
  stack,     \* the runs in flight, outermost first
  nextId,    \* the identity the next new listener function gets
  done,      \* what the call that has just returned did (the next step clears it)
  globals,   \* the number of mutations made to the global object
  E,         \* the engine's contexts, defaultContextNameIndex, fresh objects
  last,      \* what the last call of an entry point did (API specification)
  imp        \* the last dynamic import (import specification)

vars == <<sigint, stack, nextId, done, globals, E, last, imp>>

MaxListeners == 2    \* listener functions ever created
MaxDepth == 2        \* nested runs
MaxMut == 1          \* mutations of the global object

Range(f) == {f[i] : i \in DOMAIN f}

\* the values the unused parts of the state keep
NoDone ==
  [outcome |-> "none", wrapped |-> FALSE, breakOnSigint |-> FALSE,
   deadline |-> FALSE, asked |-> FALSE, unit |-> "finite", saved |-> <<>>,
   entry |-> <<>>, added |-> {}, emitted |-> <<>>, depth |-> 0,
   leak |-> FALSE, nested |-> FALSE]
NoLast ==
  [api |-> "none", err |-> NoErr, stage |-> "", compiled |-> FALSE, made |-> 0,
   ran |-> FALSE, ret |-> Undef, sandbox |-> Undef, wasContext |-> FALSE,
   lineOffset |-> Undef, columnOffset |-> Undef]
NoModule ==
  [kind |-> "none", id |-> 0, ns |-> FALSE, falsy |-> FALSE, inWrapMap |-> FALSE,
   status |-> "", error |-> 0, namespace |-> 0]
NoResult == [out |-> "none", what |-> "", id |-> 0]
NoImp == [callbackMap |-> {}, script |-> 0, m |-> NoModule, res |-> NoResult]

\* the engine state of the listener specification: object 1 is a context
ESig == createContext(E0, Obj(1), [v |-> Undef, name |-> Undef, origin |-> Undef,
                                    codeGeneration |-> NoCG]).E

\* ------------------------------------------------------------- the inputs
RunOptions ==
  { OptVal(Undef),
    OptVal(Num(0, 7)),
    OptObj([NoProps EXCEPT !.breakOnSigint = Bool(TRUE)]),
    OptObj([NoProps EXCEPT !.breakOnSigint = Bool(FALSE), !.timeout = Num(0, 5)]),
    OptObj([NoProps EXCEPT !.breakOnSigint = Bool(TRUE), !.timeout = Num(0, 5)]),
    OptObj([NoProps EXCEPT !.breakOnSigint = Str("yes")]),
    OptObj([NoProps EXCEPT !.breakOnSigint = Bool(TRUE), !.timeout = Num(0, 0)]) }

Units == {"finite", "loops"}

\* ------------------------------------------------------------ the engine
\* A frame of stack: one engine run in flight.
\*   breakOnSigint, deadline: the arguments the run was started with
\*   wrapped, saved: the call went through sigintHandlersWrap, its sigintListeners
\*   unit: whether the code completes on its own, abort: how the engine ended it
\*   asked, entry, added, leak, nested: for the properties only (the options
\*   held a timeout; the listeners at entry; the listeners the code registered;
\*   a listener of saved received a signal; a nested call was wrapped)
Frame(o, r, wrapped, saved, entry, unit) ==
  [breakOnSigint |-> r.breakOnSigint, deadline |-> r.timeout # NoTimeout,
   asked |-> Props(o).timeout # Undef,
   wrapped |-> wrapped, saved |-> saved, entry |-> entry, added |-> {},
   unit |-> unit, abort |-> "none", leak |-> FALSE, nested |-> FALSE]

Top == stack[Len(stack)]
Running == stack # <<>> /\ Top.abort = "none"
CanCall == stack = <<>> \/ Running

\* ------------------------------------------------------------ the actions
\* host code, between runs: process.on('SIGINT', function () {...})
HostAddListener ==
  /\ stack = <<>>
  /\ nextId <= MaxListeners
  /\ sigint' = addListener([list |-> sigint, emitted |-> <<>>], nextId).list
  /\ nextId' = nextId + 1
  /\ done' = NoDone
  /\ UNCHANGED <<stack, globals, E, last, imp>>

\* The part of Script.runInThisContext / Script.runInContext up to the start
\* of the engine run: r is what the options and the context validate to.
Begin(o, r, unit) ==
  IF r.err.code # "none"
    THEN /\ done' = [NoDone EXCEPT !.outcome = "invalid_arg", !.entry = sigint,
                                   !.depth = Len(stack) + 1]
         /\ UNCHANGED <<sigint, stack>>
  ELSE IF Wraps(r.breakOnSigint, sigint)
    THEN /\ sigint' = Detach(sigint).list
         /\ stack' = Append(stack, Frame(o, r, TRUE, Detach(sigint).saved, sigint,
                                         unit))
         /\ done' = NoDone
  ELSE /\ stack' = Append(stack, Frame(o, r, FALSE, <<>>, sigint, unit))
       /\ done' = NoDone
       /\ UNCHANGED sigint

\* script.runInThisContext(options), by the host or by the code of a run
RunInThisContext(U) ==
  \E o \in RunOptions, unit \in U :
    /\ CanCall /\ Len(stack) < MaxDepth
    /\ Begin(o, ScriptRunInThisContext(E, o, TRUE, 0), unit)
    /\ UNCHANGED <<nextId, globals, E, last, imp>>

\* script.runInContext(contextifiedSandbox, options)
RunInContext(U) ==
  \E o \in RunOptions, unit \in U, sb \in {Obj(1), Num(0, 5)} :
    /\ CanCall /\ Len(stack) < MaxDepth
    /\ Begin(o, ScriptRunInContext(E, sb, o, TRUE, 0), unit)
    /\ UNCHANGED <<nextId, globals, E, last, imp>>

\* the code of the innermost run registers a new listener
ExecAddListener ==
  /\ Running
  /\ nextId <= MaxListeners
  /\ sigint' = addListener([list |-> sigint, emitted |-> <<>>], nextId).list
  /\ nextId' = nextId + 1
  /\ stack' = [stack EXCEPT ![Len(stack)].added = @ \cup {nextId}]
  /\ done' = NoDone
  /\ UNCHANGED <<globals, E, last, imp>>

\* the code of the innermost run changes its global object
ExecMutate ==
  /\ Running
  /\ globals < MaxMut
  /\ globals' = globals + 1
  /\ done' = NoDone
  /\ UNCHANGED <<sigint, stack, nextId, E, last, imp>>

\* the deadline of run i passes: the engine terminates the execution, which
\* ends run i as timed out and the runs nested in it with it
Timeout(i) ==
  /\ i \in DOMAIN stack
  /\ stack[i].deadline
  /\ stack[i].abort = "none"
  /\ stack' = [j \in DOMAIN stack |->
                 IF stack[j].abort # "none" THEN stack[j]
                 ELSE IF j = i THEN [stack[j] EXCEPT !.abort = "timedout"]
                 ELSE IF j > i THEN [stack[j] EXCEPT !.abort = "terminated"]
                 ELSE stack[j]]
  /\ done' = NoDone
  /\ UNCHANGED <<sigint, nextId, globals, E, last, imp>>

\* SIGINT arrives while a run executes: the listeners registered at that
\* moment receive it, and the engine aborts the runs started with
\* breakOnSigint as interrupted and the runs nested in them with them
Interrupt ==
  /\ Running
  /\ stack' = [j \in DOMAIN stack |->
                 LET f == [stack[j] EXCEPT
                             !.leak = @ \/ Range(stack[j].saved) \cap Range(sigint) # {}]
                 IN IF f.abort # "none" THEN f
                    ELSE IF f.breakOnSigint THEN [f EXCEPT !.abort = "interrupted"]
                    ELSE IF \E k \in 1 .. j - 1 :
                              stack[k].breakOnSigint /\ stack[k].abort = "none"
                      THEN [f EXCEPT !.abort = "terminated"]
                    ELSE f]
  /\ done' = NoDone
  /\ UNCHANGED <<sigint, nextId, globals, E, last, imp>>

\* The innermost run ends, and the rest of the call with it: the finally
\* block of sigintHandlersWrap when the call went through it.
Finish(outcome) ==
  LET f == Top
      r == IF f.wrapped THEN AfterRun(sigint, f.saved, outcome)
           ELSE [list |-> sigint, emitted |-> <<>>]
      n == Len(stack)
  IN /\ sigint' = r.list
     /\ done' = [outcome |-> outcome, wrapped |-> f.wrapped,
                 breakOnSigint |-> f.breakOnSigint, deadline |-> f.deadline,
                 asked |-> f.asked, unit |-> f.unit, saved |-> f.saved,
                 entry |-> f.entry, added |-> f.added, emitted |-> r.emitted,
                 depth |-> n, leak |-> f.leak, nested |-> f.nested]
     /\ stack' = IF n = 1 THEN <<>>
                 ELSE [SubSeq(stack, 1, n - 1) EXCEPT
                         ![n - 1].added = @ \cup f.added,
                         ![n - 1].nested = @ \/ f.wrapped]
     /\ UNCHANGED <<nextId, globals, E, last, imp>>

\* a unit that completes on its own returns a value or throws
Return ==
  /\ Running
  /\ Top.unit = "finite"
  /\ \E outcome \in {"value", "throw"} : Finish(outcome)

\* an aborted run returns to its caller with the failure of its abort
Abort ==
  /\ stack # <<>>
  /\ Top.abort # "none"
  /\ Finish(Top.abort)

Init ==
  /\ sigint = <<>>
  /\ stack = <<>>
  /\ nextId = 1
  /\ done = NoDone
  /\ globals = 0
  /\ E = ESig
  /\ last = NoLast
  /\ imp = NoImp

\* The listener protocol: the code of a run registers listeners and starts
\* nested runs; every run can return, throw, time out or be interrupted.
Next ==
  \/ HostAddListener
  \/ RunInThisContext({"finite"})
  \/ RunInContext({"finite"})
  \/ ExecAddListener
  \/ \E i \in 1 .. MaxDepth : Timeout(i)
  \/ Interrupt
  \/ Return
  \/ Abort

Spec == Init /\ [][Next]_vars

\* Deadlines: units that never complete on their own, and the mutations they
\* make to the global object.  The engine's watchdog fires once the deadline
\* of a run has passed, and a run that has ended returns to its caller.
NextT ==
  \/ HostAddListener
  \/ RunInThisContext(Units)
  \/ RunInContext(Units)
  \/ ExecMutate
  \/ \E i \in 1 .. MaxDepth : Timeout(i)
  \/ Interrupt
  \/ Return
  \/ Abort

FairSpec ==
  /\ Init
  /\ [][NextT]_vars
  /\ \A i \in 1 .. MaxDepth : WF_vars(Timeout(i))
  /\ WF_vars(Return)
  /\ WF_vars(Abort)

\* ================================================= the listener protocol
\* the call that has just returned was started with breakOnSigint true while
\* listeners were registered
DoneRan == done.outcome \notin {"none", "invalid_arg"}
DoneGuarded == DoneRan /\ done.breakOnSigint /\ done.entry # <<>>

Suffix(q, n) == SubSeq(q, Len(q) - n + 1, Len(q))
Prefix(q, n) == SubSeq(q, 1, n)

\* C1 as stated: after a breakOnSigint call made with one listener registered,
\* exactly that listener is registered.
C1_OnlyOriginalRegistered ==
  (DoneGuarded /\ Len(done.entry) = 1) => sigint = done.entry

\* C1 (amended): however a breakOnSigint call made with listeners registered
\* exits (value, throw, timed out, interrupted, terminated), the listeners
\* saved at entry are registered again, in their original order, after the
\* listeners the executed code registered itself, each one re-added through
\* process.addListener; when the code registered none, the listeners are
\* exactly the original ones.
C1_ListenersRestored ==
  DoneGuarded =>
    /\ Len(sigint) = Len(done.entry) + Cardinality(done.added)
    /\ Suffix(sigint, Len(done.entry)) = done.entry
    /\ Range(Prefix(sigint, Cardinality(done.added))) = done.added
    /\ done.emitted = done.entry
    /\ (done.added = {} => sigint = done.entry)

C1_Witness ==
  /\ DoneGuarded /\ done.outcome = "interrupted"
  /\ Len(done.entry) = 2 /\ sigint = done.entry

\* C2: while a run started with breakOnSigint true and listeners registered
\* is in flight, none of the listeners registered before the call is
\* registered, so none of them receives a signal that arrives meanwhile; a
\* run ends as interrupted only if it was started with breakOnSigint.
C2_SavedListenersDetached ==
  /\ \A i \in DOMAIN stack :
       LET f == stack[i]
       IN /\ (f.breakOnSigint /\ f.entry # <<>>) =>
               /\ f.saved = f.entry
               /\ Range(f.entry) \cap Range(sigint) = {}
               /\ ~f.leak
          /\ f.abort = "interrupted" => f.breakOnSigint
  /\ DoneGuarded => ~done.leak
  /\ done.outcome = "interrupted" => done.breakOnSigint

C2_Witness ==
  \E i \in DOMAIN stack :
    /\ stack[i].wrapped /\ stack[i].abort = "interrupted"
    /\ stack[i].saved # <<>> /\ sigint # <<>>

\* the case of C3: breakOnSigint false, or no listener registered at the call
Unguarded(f) == ~(f.breakOnSigint /\ f.entry # <<>>)

C10_ListenerConservation ==
  /\ \A i \in DOMAIN stack : \A j \in DOMAIN stack :
       (i < j) => Range(stack[j].saved) \subseteq
                    Range(stack[j - 1].entry) \cup stack[j - 1].added
  /\ (DoneRan /\ done.breakOnSigint /\ done.depth = 1) =>
       /\ Range(sigint) = Range(done.entry) \cup done.added
       /\ Len(sigint) = Cardinality(Range(sigint))
       /\ Suffix(sigint, Len(done.entry)) = done.entry
       /\ Range(Suffix(sigint, Len(done.entry))) \cap done.added = {}

C10_Witness ==
  /\ DoneGuarded /\ done.depth = 1 /\ done.nested
  /\ done.added # {} /\ Len(sigint) = 2

Codes == {"ok", "syntax"}

OffsetValues ==
  { Num(0, 7), Num(-1, Limb - 1),
    Num(Half - 1, Limb - 1),        \* 2^31 - 1
    Num(Half, 0),                   \* 2^31
    Num(0 - Half, 0),               \* -2^31
    Num(0 - Half - 1, Limb - 1),    \* -2^31 - 1
    Num(Limb, 0),                   \* 2^32
    Float, Str("1") }

ScriptOptions ==
  { OptVal(Undef), OptVal(Null), OptVal(Num(0, 7)), OptVal(Num(0, 0)),
    OptVal(Str("f.js")), OptObj(NoProps) }
  \cup { OptObj([NoProps EXCEPT !.filename = v]) : v \in {Str("f.js"), Num(0, 7)} }
  \cup { OptObj([NoProps EXCEPT !.lineOffset = v]) : v \in OffsetValues }
  \cup { OptObj([NoProps EXCEPT !.columnOffset = v]) :
           v \in {Num(Half, 0), Num(0 - Half, 0), Float} }
  \cup { OptObj([NoProps EXCEPT !.filename = Num(0, 7), !.lineOffset = Num(Half, 0)]),
         OptObj([NoProps EXCEPT !.lineOffset = Num(Half - 1, Limb - 1),
                                !.columnOffset = Num(0 - Half - 1, Limb - 1)]) }
  \cup { OptObj([NoProps EXCEPT !.cachedData = v]) : v \in {U8(1), Str("x")} }
  \cup { OptObj([NoProps EXCEPT !.produceCachedData = v]) :
           v \in {Bool(TRUE), Num(0, 1)} }
  \cup { OptObj([NoProps EXCEPT !.importModuleDynamically = v]) :
           v \in {Fn(1), Num(0, 1)} }
  \cup { OptObj([NoProps EXCEPT !.timeout = v]) :
           v \in {Num(0, 5), Num(0, 0), Float} }
  \cup { OptObj([NoProps EXCEPT !.displayErrors = v]) : v \in {Bool(FALSE), Str("x")} }
  \cup { OptObj([NoProps EXCEPT !.breakOnSigint = v]) : v \in {Bool(TRUE), Num(0, 1)} }
  \cup { OptObj([NoProps EXCEPT !.contextName = v]) :
           v \in {Str("VM Context 1"), Num(0, 1)} }
  \cup { OptObj([NoProps EXCEPT !.contextOrigin = v]) : v \in {Str("o"), Num(0, 1)} }
  \cup { OptObj([NoProps EXCEPT !.contextCodeGeneration = v]) :
           v \in {CG(Bool(FALSE), Undef), CG(Undef, Str("x")), BadCG} }

CtxOpts(name, origin, cg) ==
  [v |-> Obj(0), name |-> name, origin |-> origin, codeGeneration |-> cg]

CtxOptions ==
  { [NoCtxOpts EXCEPT !.v = Undef], [NoCtxOpts EXCEPT !.v = Num(0, 7)],
    CtxOpts(Str("VM Context 1"), Undef, NoCG),
    CtxOpts(Str("sandbox"), Str("o"), CG(Bool(FALSE), Undef)),
    CtxOpts(Num(0, 1), Undef, NoCG),
    CtxOpts(Undef, Num(0, 1), NoCG) }

\* more of them, for the single calls
MoreCtxOptions ==
  CtxOptions \cup
  { [NoCtxOpts EXCEPT !.v = Null], NoCtxOpts,
    CtxOpts(Undef, Undef, BadCG),
    CtxOpts(Undef, Undef, CG(Undef, Num(0, 1))) }

\* the sandboxes a caller can pass: no object, a non-object, an object it holds
Sandboxes ==
  {Null, Num(0, 5)} \cup {Obj(i) : i \in 1 .. E.nextObj - 1}
  \cup (IF E.nextObj <= MaxObj THEN {Undef} ELSE {})

\* the options of the calls that make contexts
ContextRunOptions ==
  { OptVal(Undef),
    OptObj([NoProps EXCEPT !.contextName = Str("VM Context 1")]),
    OptObj([NoProps EXCEPT !.contextName = Num(0, 1)]),
    OptObj([NoProps EXCEPT !.timeout = Num(0, 0)]) }

\* ------------------------------------------------------------ the actions
\* the call returns: its record, the contexts it made, and the listeners,
\* which a run that is not interrupted leaves as sigintHandlersWrap restores them
Returned(api, sb, o, r) ==
  /\ E.idx <= MaxIndex
  /\ E' = r.E
  /\ last' = [api |-> api, err |-> r.err, stage |-> r.stage,
              compiled |-> r.compiled, made |-> r.made, ran |-> r.ran,
              ret |-> r.ret, sandbox |-> sb,
              wasContext |-> (sb.t = "object" /\ isContextBinding(E, sb)),
              lineOffset |-> Props(Shorthand(o)).lineOffset,
              columnOffset |-> Props(Shorthand(o)).columnOffset]
  /\ sigint' = IF r.ran /\ Wraps(r.breakOnSigint, sigint)
                 THEN AfterRun(Detach(sigint).list, Detach(sigint).saved,
                               "value").list
               ELSE sigint
  /\ UNCHANGED <<stack, nextId, done, globals, imp>>

NewScript ==
  \E code \in Codes, o \in ScriptOptions :
    \E s \in {ScriptNew(code, o)} :
      Returned("new Script", Undef, o,
               Res(s.err, "compile", s.compiled, 0, FALSE, E, Undef, NoArgs))

CallCreateContext(O) ==
  \E sb \in Sandboxes, co \in O :
    \E c \in {createContext(E, sb, co)} :
      Returned("createContext", sb, OptVal(Undef),
               Res(c.err, "context", FALSE, c.made, FALSE, c.E, c.ret, NoArgs))

CallScriptRunInThisContext ==
  \E o \in ScriptOptions :
    \E r \in {ScriptRunInThisContext(E, o, FALSE, 0)} :
      Returned("Script.runInThisContext", Undef, o, r)

CallScriptRunInContext ==
  \E sb \in Sandboxes \ {Undef}, o \in ScriptOptions :
    \E r \in {ScriptRunInContext(E, sb, o, FALSE, 0)} :
      Returned("Script.runInContext", sb, o, r)

CallScriptRunInNewContext(O) ==
  \E sb \in Sandboxes, o \in O :
    \E r \in {ScriptRunInNewContext(E, sb, o, FALSE, 0)} :
      Returned("Script.runInNewContext", sb, o, r)

CallRunInThisContext ==
  \E code \in Codes, o \in ScriptOptions :
    \E r \in {runInThisContext(E, code, o)} :
      Returned("runInThisContext", Undef, o, r)

CallRunInContext ==
  \E code \in Codes, sb \in Sandboxes \ {Undef}, o \in ScriptOptions :
    \E r \in {runInContext(E, code, sb, o)} :
      Returned("runInContext", sb, o, r)

CallRunInNewContext(C, O) ==
  \E code \in C, sb \in Sandboxes, o \in O :
    \E r \in {runInNewContext(E, code, sb, o)} :
      Returned("runInNewContext", sb, o, r)

\* One call of an entry point, with any of the arguments, made when no object
\* is a context yet or when object 1 is one.
InitApi ==
  /\ sigint = <<1>>
  /\ stack = <<>>
  /\ nextId = 2
  /\ done = NoDone
  /\ globals = 0
  /\ E \in {E0, ESig}
  /\ last = NoLast
  /\ imp = NoImp

NextApi ==
  \/ last = NoLast /\ NewScript
  \/ last = NoLast /\ CallCreateContext(MoreCtxOptions)
  \/ last = NoLast /\ CallScriptRunInThisContext
  \/ last = NoLast /\ CallScriptRunInContext
  \/ last = NoLast /\ CallScriptRunInNewContext(ScriptOptions)
  \/ last = NoLast /\ CallRunInThisContext
  \/ last = NoLast /\ CallRunInContext
  \/ last = NoLast /\ CallRunInNewContext(Codes, ScriptOptions)

ApiSpec == InitApi /\ [][NextApi]_vars

\* The contexts of a process: any sequence of the calls that make contexts.
InitCtx ==
  /\ sigint = <<1>>
  /\ stack = <<>>
  /\ nextId = 2
  /\ done = NoDone
  /\ globals = 0
  /\ E = E0
  /\ last = NoLast
  /\ imp = NoImp

NextCtx ==
  \/ CallCreateContext(CtxOptions)
  \/ CallScriptRunInNewContext(ContextRunOptions)
  \/ CallRunInNewContext({"ok"}, ContextRunOptions)

CtxSpec == InitCtx /\ [][NextCtx]_vars

\* ------------------------------------------------------- the entry points
InvalidArg == last.err.code = "ERR_INVALID_ARG_TYPE"

\* C4 as stated: when a call ends in an invalid-argument error, the engine
\* has compiled nothing, made no context and run nothing.
C4_NoEngineWork ==
  InvalidArg => (~last.compiled /\ last.made = 0 /\ ~last.ran)

\* C4 (amended): an invalid-argument error is always raised before the engine
\* run.  createContext, Script.runInContext, Script.runInThisContext and new
\* Script raise theirs before any engine call, except that new Script checks
\* importModuleDynamically after the engine has compiled the code.  The
\* functions that compose them validate stage by stage: the context options
\* before makeContext, the script options (but importModuleDynamically) before
\* the compilation, the run options after it; only runInNewContext and
\* Script.runInNewContext can have made a context before a later stage fails.
C4_ValidationBeforeOwnEngineCall ==
  InvalidArg =>
    /\ ~last.ran
    /\ last.api \in {"createContext", "Script.runInContext",
                     "Script.runInThisContext"}
         => (~last.compiled /\ last.made = 0)
    /\ last.stage = "context" => (~last.compiled /\ last.made = 0)
    /\ last.stage = "compile" =>
         (last.compiled <=> last.err.arg = "options.importModuleDynamically")
    /\ (last.stage = "run" /\ last.api \in {"runInContext", "runInThisContext",
                                            "runInNewContext"})
         => last.compiled
    /\ last.made > 0 =>
         /\ last.api \in {"runInNewContext", "Script.runInNewContext"}
         /\ last.stage \in {"compile", "run"}

C4_Witness ==
  /\ InvalidArg /\ last.api = "runInNewContext"
  /\ last.err.arg = "options.timeout" /\ last.compiled /\ last.made = 1

\* [-2^31, 2^31 - 1], on the two limbs of a number
InRange(v) == v.hi >= 0 - Half /\ v.hi <= Half - 1
OffsetOk(v) == v.t = "undefined" \/ (v.t = "number" /\ InRange(v))
OffsetOut(v) == v.t = "number" /\ ~InRange(v)
Constructs ==
  /\ last.api \in {"new Script", "runInThisContext", "runInContext",
                   "runInNewContext"}
  /\ last.stage # "context"

\* C7: an integer lineOffset or columnOffset passes the validation of
\* new Script exactly if it lies in [-2^31, 2^31 - 1]; outside it the call
\* fails with the out-of-range error, before the engine compiles the source.
C7_OffsetRange ==
  Constructs =>
    /\ OffsetOut(last.lineOffset) =>
         /\ ~last.compiled
         /\ \/ last.err = Err("ERR_OUT_OF_RANGE", "options.lineOffset")
            \/ last.err = Err("ERR_INVALID_ARG_TYPE", "options.filename")
    /\ (OffsetOk(last.lineOffset) /\ OffsetOut(last.columnOffset)) =>
         /\ ~last.compiled
         /\ \/ last.err = Err("ERR_OUT_OF_RANGE", "options.columnOffset")
            \/ last.err = Err("ERR_INVALID_ARG_TYPE", "options.filename")
    /\ (OffsetOk(last.lineOffset) /\ OffsetOk(last.columnOffset)) =>
         /\ last.err.code # "ERR_OUT_OF_RANGE"
         /\ last.err.arg \notin {"options.lineOffset", "options.columnOffset"}
    /\ last.err.code = "ERR_OUT_OF_RANGE" => (~last.compiled /\ ~last.ran)

C7_Witness ==
  /\ Constructs
  /\ last.lineOffset = Num(Half - 1, Limb - 1)
  /\ last.err = Err("ERR_OUT_OF_RANGE", "options.columnOffset")
  /\ ~last.compiled

\* ------------------------------------------------------------- contexts
\* C5: createContext of an object that is a context returns that object,
\* whatever the options, with no makeContext call, its name, origin and
\* code-generation policy unchanged and no default name consumed; what
\* createContext returns is a context, so createContext(createContext(x)) is
\* createContext(x).
C5_CreateContextIdempotent ==
  /\ \A i \in Objs : E.cx[i].is =>
       \A co \in MoreCtxOptions :
         createContext(E, Obj(i), co) =
           [err |-> NoErr, ret |-> Obj(i), E |-> E, made |-> 0]
  /\ (last.api = "createContext" /\ last.err.code = "none") =>
       /\ last.ret.t = "object" /\ E.cx[last.ret.lo].is
       /\ last.sandbox.t = "object" => last.ret = last.sandbox
  /\ (last.api = "createContext" /\ last.wasContext) =>
       (last.err = NoErr /\ last.ret = last.sandbox /\ last.made = 0)

C5_Witness ==
  /\ last.api = "createContext" /\ last.wasContext
  /\ E.cx[last.ret.lo].name = "sandbox" /\ E.cx[last.ret.lo].origin = "o"
  /\ E.idx = 1

\* C9 as stated: two contexts of which at least one got the default label
\* never hold the same name.
C9_DefaultNameUnique ==
  \A i \in Objs : \A j \in Objs :
    (i # j /\ E.cx[i].is /\ E.cx[j].is /\ (E.cx[i].auto \/ E.cx[j].auto))
      => E.cx[i].name # E.cx[j].name

\* C9 (amended): the default labels are unique among themselves: two contexts
\* that both got the default label "VM Context N" never hold the same name,
\* whatever calls of createContext and runInNewContext made them (a context
\* given the name "VM Context N" explicitly can share it with one that got it
\* by default).
C9_DefaultNamesDistinct ==
  /\ \A i \in Objs : \A j \in Objs :
       (i # j /\ E.cx[i].is /\ E.cx[j].is /\ E.cx[i].auto /\ E.cx[j].auto)
         => E.cx[i].name # E.cx[j].name
  /\ \A i \in Objs : (E.cx[i].is /\ E.cx[i].auto) =>
       \E k \in 1 .. E.idx - 1 : E.cx[i].name = DefaultName(k)

C9_Witness ==
  /\ last.api = "runInNewContext" /\ last.made = 1
  /\ \E i \in Objs : \E j \in Objs :
       i # j /\ E.cx[i].is /\ E.cx[j].is /\ E.cx[i].auto /\ E.cx[j].auto

\* ========================================================= dynamic import
MaxScripts == 3      \* scripts compiled with importModuleDynamically

\* What a resolver can return: a module namespace object, undefined or null,
\* an object that is no module, or a module record with its link status.
LinkStatuses == {"unlinked", "linking", "linked", "errored"}
Module(kind, id, status, error, namespace) ==
  [kind |-> kind, id |-> id, ns |-> kind = "namespace",
   falsy |-> kind \in {"undefined", "null"}, inWrapMap |-> kind = "record",
   status |-> status, error |-> error, namespace |-> namespace]
ImportResults ==
  { Module(k, 0, "", 0, 0) : k \in {"undefined", "null"} }
  \cup { Module(k, id, "", 0, 0) : k \in {"namespace", "object"}, id \in {1, 2} }
  \cup { Module("record", id, st, id + 10, id + 20) :
           id \in {1, 2}, st \in LinkStatuses }

\* util.types.isModuleNamespaceObject, wrapMap.has, linkingStatusMap.get
isModuleNamespaceObject(m) == m.ns
wrapMapHas(m) == m.inWrapMap
linkingStatus(m) == m.status

\* the async wrapper put in callbackMap, applied to what the resolver returned
importWrapperNoErrored(m) ==
  IF isModuleNamespaceObject(m) THEN [out |-> "return", what |-> "m", id |-> m.id]
  ELSE IF m.falsy \/ ~wrapMapHas(m)
    THEN [out |-> "throw", what |-> "ERR_VM_MODULE_NOT_MODULE", id |-> 0]
  ELSE [out |-> "return", what |-> "m.namespace", id |-> m.namespace]

importWrapper(m) ==
  IF isModuleNamespaceObject(m) THEN [out |-> "return", what |-> "m", id |-> m.id]
  ELSE IF m.falsy \/ ~wrapMapHas(m)
    THEN [out |-> "throw", what |-> "ERR_VM_MODULE_NOT_MODULE", id |-> 0]
  ELSE IF linkingStatus(m) = "errored"
    THEN [out |-> "throw", what |-> "m.error", id |-> m.error]
  ELSE [out |-> "return", what |-> "m.namespace", id |-> m.namespace]

\* new Script(code, { importModuleDynamically }): the wrapper is registered
\* for the script when the option is a function
CompileWithResolver ==
  \E s \in 1 .. MaxScripts, f \in {Fn(1), Num(0, 1), Undef} :
    /\ s \notin imp.callbackMap
    /\ imp' = IF ScriptNew("ok", OptObj([NoProps EXCEPT
                                           !.importModuleDynamically = f])).resolver
                THEN [imp EXCEPT !.callbackMap = @ \cup {s}]
                ELSE imp
    /\ UNCHANGED <<sigint, stack, nextId, done, globals, E, last>>

\* the engine asks for a dynamic import made by the code of script s
DynamicImport ==
  \E s \in imp.callbackMap, m \in ImportResults :
    /\ imp' = [imp EXCEPT !.script = s, !.m = m, !.res = importWrapper(m)]
    /\ UNCHANGED <<sigint, stack, nextId, done, globals, E, last>>

InitImport ==
  /\ sigint = <<>>
  /\ stack = <<>>
  /\ nextId = 1
  /\ done = NoDone
  /\ globals = 0
  /\ E = E0
  /\ last = NoLast
  /\ imp = NoImp

NextImport == CompileWithResolver \/ DynamicImport

ImportSpec == InitImport /\ [][NextImport]_vars

\* C6: the wrapper maps the resolver's result m to: m itself when m is a
\* module namespace object; otherwise the "not a module" error when m is no
\* known module record; otherwise the record's stored error when its link
\* status is "errored"; otherwise the record's namespace object.
C6_ImportOutcome ==
  LET m == imp.m
  IN imp.res.out # "none" =>
       /\ m.ns => imp.res = [out |-> "return", what |-> "m", id |-> m.id]
       /\ (~m.ns /\ (m.falsy \/ ~m.inWrapMap)) =>
            imp.res = [out |-> "throw", what |-> "ERR_VM_MODULE_NOT_MODULE",
                       id |-> 0]
       /\ (~m.ns /\ ~m.falsy /\ m.inWrapMap /\ m.status = "errored") =>
            imp.res = [out |-> "throw", what |-> "m.error", id |-> m.error]
       /\ (~m.ns /\ ~m.falsy /\ m.inWrapMap /\ m.status # "errored") =>
            imp.res = [out |-> "return", what |-> "m.namespace",
                       id |-> m.namespace]

C6_Witness ==
  /\ imp.m.kind = "record" /\ imp.m.status = "errored"
  /\ imp.res = [out |-> "throw", what |-> "m.error", id |-> imp.m.error]
====
